---- MODULE Spec2Model ----
(***************************************************************************)
(* Model of OrchestrationEngine (src/orchestrationengine.py): the registry *)
(* of engines, the tick, the run loop, stop() and the fault policy.        *)
(*                                                                         *)
(* Python runs one call at a time, so the model keeps an explicit call     *)
(* stack.  A top-level call (register_engine, unregister_engine, stop,     *)
(* step_once, start) is made when the stack is empty; every hook           *)
(* invocation is one step of the model.  Hooks are code outside the        *)
(* repository: each invocation nondeterministically returns or raises.  A  *)
(* step hook may also append an event to world_state["events"] (as         *)
(* InputEngine.step does), and may call back unregister_engine(name) or    *)
(* stop() on the orchestrator.  Every registration passes a freshly        *)
(* constructed object (src/run.py:5), so an object's id is also its        *)
(* registration order.                                                     *)
(*                                                                         *)
(* Times are integers in milliseconds.  The loop reads the clock only to   *)
(* subtract last_time from it, so the clock is kept as the time elapsed    *)
(* since last_time was read.  shut_down and evicted keep facts about the   *)
(* objects the orchestrator still references: an object that neither the   *)
(* registry nor a loop in progress holds can have no hook invoked again.   *)
(***************************************************************************)
EXTENDS Integers, Sequences, FiniteSets, TLC

\* ---- bounds of the model ------------------------------------------------
MaxRegs == 2            \* objects ever passed to register_engine
MaxTick == 2            \* ticks performed
MaxDepth == 5           \* nesting of calls below the embedding program

\* ---- program constants --------------------------------------------------
tick_rate == 10         \* src/run.py:4

\* The classes of the engines registered: InputEngine (src/inputengine.py),
\* a subclass that keeps BaseEngine's name and priority
\* (src/orchestrationengine.py:29-30) and one that overrides the priority.
EngineClasses ==
    {[name |-> "InputEngine", priority |-> 10],
     [name |-> "UnnamedEngine", priority |-> 100],
     [name |-> "UnnamedEngine", priority |-> 10]}
Names == {c.name : c \in EngineClasses}

\* how long a tick may take between two readings of the clock: no time, or
\* more than two tick durations
Durations == {0, 250}

VARIABLES
    strict,       \* self.strict
    engines,      \* self.engines: sequence of engine objects
    running,      \* self.running
    world_state,  \* self.world_state: [time, tick, events]
    stack,        \* call stack below the embedding program, innermost last
    exc,          \* the exception propagating, or NoError
    clock,        \* time.time() - last_time inside _run_loop(); 0 outside
    next_id,      \* objects constructed so far + 1
    caller,       \* the current / last top-level call: [op, arg, raised]; arg is
                  \* the engine of register_engine, the name of unregister_engine
    pre,          \* engines, running, world_state when that call was made
    trace,        \* hook invocations and fault-policy entries of that call,
                  \* since its latest tick began
    shut_down,    \* ids of the objects whose on_shutdown has been invoked
    evicted       \* ids of the objects the fault policy removed

vars == <<strict, engines, running, world_state, stack, exc, clock, next_id,
          caller, pre, trace, shut_down, evicted>>

\* self.tick_duration = 1.0 / tick_rate, in milliseconds
tick_duration == 1000 \div tick_rate

NoError == [type |-> "None", at |-> 0]
NoEngine == [kind |-> "None", id |-> 0, name |-> "", priority |-> 0]

\* A value handed to register_engine: an instance of a BaseEngine subclass,
\* or some other object.
BaseEngine(id, name, priority) ==
    [kind |-> "BaseEngine", id |-> id, name |-> name, priority |-> priority]

NotAnEngine == [kind |-> "object", id |-> 0, name |-> "InputEngine", priority |-> 10]

\* (no check of the class)
isinstance_object(v) == TRUE

isinstance_BaseEngine(v) == v.kind = "BaseEngine"

\* ---- pure helpers -------------------------------------------------------
Front(s) == SubSeq(s, 1, Len(s) - 1)
Last(s) == s[Len(s)]

\* (a sort that is not stable: the new element goes before its equals)
InsertUnstable(s, e) ==
    LET k == Cardinality({j \in 1..Len(s) : s[j].priority < e.priority})
    IN  SubSeq(s, 1, k) \o <<e>> \o SubSeq(s, k + 1, Len(s))

\* list.sort(key=priority) is stable: an element goes after every element
\* whose key is not greater.
Insert(s, e) ==
    LET k == Cardinality({j \in 1..Len(s) : s[j].priority <= e.priority})
    IN  SubSeq(s, 1, k) \o <<e>> \o SubSeq(s, k + 1, Len(s))

RECURSIVE sort(_)
sort(s) == IF s = <<>> THEN <<>> ELSE Insert(sort(Front(s)), Last(s))

\* (a removal of the first entry of the name only, as list.remove does)
without_first(s, engine_name) ==
    LET named == {k \in 1..Len(s) : s[k].name = engine_name}
    IN  IF named = {} THEN s
        ELSE LET k == CHOOSE m \in named : \A n \in named : m <= n
             IN  SubSeq(s, 1, k - 1) \o SubSeq(s, k + 1, Len(s))

\* (the filter inverted: keeps the entries that have the name)
with_name(s, engine_name) == SelectSeq(s, LAMBDA e : e.name = engine_name)

\* [e for e in self.engines if e.name != engine_name]
without_name(s, engine_name) == SelectSeq(s, LAMBDA e : e.name # engine_name)

\* [engine.name for engine in self.engines]
list_engines == [i \in 1..Len(engines) |-> engines[i].name]

EngineIds(s) == {s[i].id : i \in 1..Len(s)}

\* ---- call stack ----------------------------------------------------------
\* One record shape for every frame:
\*   "_run_loop"
\*   "_tick"                 list = list(self.engines), i = position of the for loop
\*   "stop"                  list = the list object iterated, i = position
\*   "_handle_engine_error"  engine, error: waiting for self.stop() to return
\*   "step"                  engine: a step hook waiting for its call of stop()
Frame(op, list, i, engine, error) ==
    [op |-> op, list |-> list, i |-> i, engine |-> engine, error |-> error]

Top == stack[Len(stack)]
Advanced == [stack EXCEPT ![Len(stack)].i = @ + 1]
Idle == stack = <<>> /\ exc = NoError
InLoop == stack # <<>> /\ stack[1].op = "_run_loop"
CanNest == Len(stack) + 2 <= MaxDepth

HookCall(hook, engine) ==
    [hook |-> hook, id |-> engine.id, name |-> engine.name,
     tick |-> world_state.tick, of |-> ""]
PolicyEntry(hook, engine) ==
    [hook |-> "_handle_engine_error", id |-> engine.id, name |-> engine.name,
     tick |-> world_state.tick, of |-> hook]
Exception(at) == [type |-> "Exception", at |-> at]
TypeError == [type |-> "TypeError", at |-> 0]

\* the objects the registry or a frame still holds
Referenced(list, stk) ==
    EngineIds(list) \cup
    UNION {EngineIds(stk[j].list) \cup {stk[j].engine.id} : j \in 1..Len(stk)}

\* bookkeeping of a step: on_shutdown was invoked on the objects `shut`, the
\* fault policy removed the objects `gone`
Marks(shut, gone) ==
    /\ shut_down' = (shut_down \cup shut) \cap Referenced(engines', stack')
    /\ evicted' = (evicted \cup gone) \cap Referenced(engines', stack')

\* the first statements of stop(): running = False, then the loop over the
\* list object self.engines names at that moment
stop_frame(list) == Frame("stop", list, 1, NoEngine, NoError)

\* (a tick that leaves time alone)
tick_begin_without_time(ws) ==
    [ws EXCEPT !.tick = @ + 1, !.events = <<>>]

\* (a tick that keeps the events of the tick before)
tick_begin_without_clear(ws) ==
    [ws EXCEPT !.tick = @ + 1, !.time = @ + tick_duration]

\* the first statements of _tick(): tick += 1, time += tick_duration,
\* events.clear()
tick_begin(ws) ==
    [ws EXCEPT !.tick = @ + 1, !.time = @ + tick_duration, !.events = <<>>]

\* (a tick that walks the registry from its last entry to its first)
tick_frame_reversed(list) ==
    Frame("_tick", [k \in 1..Len(list) |-> list[Len(list) + 1 - k]], 1,
          NoEngine, NoError)

\* tick frame: for engine in list(self.engines)
tick_frame(list) == Frame("_tick", list, 1, NoEngine, NoError)

\* (a fault policy that does not look at self.strict and always isolates)
handle_engine_error_always_isolating(stk, list, engine, error) ==
    /\ engines' = without_name(list, engine.name)
    /\ stack' = stk
    /\ UNCHANGED running

\* (a fault policy that isolates nothing and, strict, raises without stop())
handle_engine_error_only_raise(stk, list, engine, error) ==
    /\ engines' = list
    /\ stack' = stk \o (IF strict
                         THEN <<Frame("_handle_engine_error", <<>>, 0, engine, error),
                                stop_frame(<<>>)>>
                         ELSE <<>>)
    /\ UNCHANGED running

\* _handle_engine_error(engine, error), called with registry `list` from a
\* frame that continues as `stk`.  Strict: self.stop() and, when it returns,
\* raise error.  Isolated: self.unregister_engine(engine.name).
handle_engine_error(stk, list, engine, error) ==
    IF strict
    THEN /\ running' = FALSE
         /\ engines' = list
         /\ stack' = stk \o <<Frame("_handle_engine_error", <<>>, 0, engine, error),
                               stop_frame(list)>>
    ELSE /\ engines' = without_name(list, engine.name)
         /\ stack' = stk
         /\ UNCHANGED running

\* the objects a call of _handle_engine_error(engine, ...) takes out of `list`
Evictions(list, engine) ==
    IF strict THEN {}
    ELSE {engine.id} \cup (EngineIds(list) \ EngineIds(engines'))

\* ---- initial state: OrchestrationEngine(tick_rate, strict) ----------------
Init ==
    /\ strict \in BOOLEAN
    /\ engines = <<>>
    /\ running = FALSE
    /\ world_state = [time |-> 0, tick |-> 0, events |-> <<>>]
    /\ stack = <<>>
    /\ exc = NoError
    /\ clock = 0
    /\ next_id = 1
    /\ caller = [op |-> "__init__", arg |-> "", raised |-> NoError]
    /\ pre = [engines |-> <<>>, running |-> FALSE,
              world_state |-> [time |-> 0, tick |-> 0, events |-> <<>>]]
    /\ trace = <<>>
    /\ shut_down = {}
    /\ evicted = {}

\* the embedding program makes a call
BeginCall(op, arg) ==
    /\ Idle
    /\ caller' = [op |-> op, arg |-> arg, raised |-> NoError]
    /\ pre' = [engines |-> engines, running |-> running, world_state |-> world_state]

\* ---- top-level calls ------------------------------------------------------
\* register_engine(engine)
RegisterEngine(engine) ==
    /\ BeginCall("register_engine", engine)
    /\ UNCHANGED <<strict, world_state, clock>>
    /\ IF ~isinstance_BaseEngine(engine)
       THEN /\ exc' = TypeError
            /\ trace' = <<>>
            /\ UNCHANGED <<engines, running, stack, next_id, shut_down, evicted>>
       ELSE /\ next_id' = next_id + 1
            /\ exc' = NoError
            /\ \/ /\ engines' = sort(Append(engines, engine))
                  /\ trace' = <<HookCall("on_register", engine)>>
                  /\ UNCHANGED <<running, stack>>
                  /\ Marks({}, {})
               \/ /\ trace' = <<HookCall("on_register", engine),
                                PolicyEntry("on_register", engine)>>
                  /\ handle_engine_error(<<>>, sort(Append(engines, engine)),
                                         engine, Exception(1))
                  /\ Marks({}, Evictions(sort(Append(engines, engine)), engine))

Register ==
    \/ \E c \in EngineClasses :
          /\ next_id <= MaxRegs
          /\ RegisterEngine(BaseEngine(next_id, c.name, c.priority))
    \/ RegisterEngine(NotAnEngine)

\* unregister_engine(engine_name)
UnregisterEngine(engine_name) ==
    /\ BeginCall("unregister_engine", engine_name)
    /\ engines' = without_name(engines, engine_name)
    /\ trace' = <<>>
    /\ UNCHANGED <<strict, running, world_state, stack, exc, clock, next_id>>
    /\ Marks({}, {})

Unregister == \E engine_name \in Names : UnregisterEngine(engine_name)

\* stop()
Stop ==
    /\ BeginCall("stop", "")
    /\ running' = FALSE
    /\ stack' = <<stop_frame(engines)>>
    /\ trace' = <<>>
    /\ UNCHANGED <<strict, engines, world_state, exc, clock, next_id, shut_down,
                   evicted>>

\* step_once(): self._tick()
StepOnce ==
    /\ BeginCall("step_once", "")
    /\ world_state.tick < MaxTick
    /\ world_state' = tick_begin(world_state)
    /\ stack' = <<tick_frame(engines)>>
    /\ trace' = <<>>
    /\ UNCHANGED <<strict, engines, running, exc, clock, next_id, shut_down, evicted>>

\* start(): running = True; self._run_loop(), whose first statement reads the
\* clock into last_time
Start ==
    /\ BeginCall("start", "")
    /\ running' = TRUE
    /\ clock' = 0
    /\ stack' = <<Frame("_run_loop", <<>>, 0, NoEngine, NoError)>>
    /\ trace' = <<>>
    /\ UNCHANGED <<strict, engines, world_state, exc, next_id, shut_down, evicted>>

\* ---- steps inside a call -------------------------------------------------
\* _tick(): one iteration of `for engine in list(self.engines)`, the call of
\* engine.step(world_state, tick_duration) and, when it raises, the fault
\* policy.
TickStep ==
    /\ stack # <<>> /\ exc = NoError
    /\ Top.op = "_tick" /\ Top.i <= Len(Top.list)
    /\ LET engine == Top.list[Top.i]
           call == HookCall("step", engine)
       IN  /\ UNCHANGED <<strict, exc, clock, next_id, caller, pre>>
           /\ \/ \* the hook returns, having appended an event or not
                 /\ \E ev \in BOOLEAN :
                       world_state' =
                           IF ev THEN [world_state EXCEPT !.events =
                                          Append(@, [type |-> "key_press",
                                                     time |-> world_state.time])]
                                 ELSE world_state
                 /\ stack' = Advanced
                 /\ trace' = Append(trace, call)
                 /\ UNCHANGED <<engines, running>>
                 /\ Marks({}, {})
              \/ \* the hook raises
                 /\ strict => CanNest
                 /\ trace' = trace \o <<call, PolicyEntry("step", engine)>>
                 /\ handle_engine_error(Advanced, engines, engine,
                                        Exception(Len(trace) + 1))
                 /\ Marks({}, Evictions(engines, engine))
                 /\ UNCHANGED world_state
              \/ \* the hook calls unregister_engine(engine_name) and returns
                 /\ \E engine_name \in Names :
                       engines' = without_name(engines, engine_name)
                 /\ stack' = Advanced
                 /\ trace' = Append(trace, call)
                 /\ UNCHANGED <<running, world_state>>
                 /\ Marks({}, {})
              \/ \* the hook calls stop()
                 /\ CanNest
                 /\ running' = FALSE
                 /\ stack' = Advanced \o <<Frame("step", <<>>, 0, engine, NoError),
                                           stop_frame(engines)>>
                 /\ trace' = Append(trace, call)
                 /\ UNCHANGED <<engines, world_state>>
                 /\ Marks({}, {})

\* _tick() returns: to step_once() and its caller, or to _run_loop(), which
\* reads the clock next: the tick has taken d
TickReturn ==
    /\ stack # <<>> /\ exc = NoError
    /\ Top.op = "_tick" /\ Top.i > Len(Top.list)
    /\ stack' = Front(stack)
    /\ \E d \in (IF InLoop THEN Durations ELSE {0}) : clock' = clock + d
    /\ UNCHANGED <<strict, engines, running, world_state, exc, next_id,
                   caller, pre, trace>>
    /\ Marks({}, {})

\* stop(): one iteration of `for engine in self.engines`, the call of
\* engine.on_shutdown(world_state) and, when it raises, the fault policy.
StopStep ==
    /\ stack # <<>> /\ exc = NoError
    /\ Top.op = "stop" /\ Top.i <= Len(Top.list)
    /\ LET engine == Top.list[Top.i]
           call == HookCall("on_shutdown", engine)
       IN  /\ UNCHANGED <<strict, world_state, exc, clock, next_id, caller, pre>>
           /\ \/ /\ stack' = Advanced
                 /\ trace' = Append(trace, call)
                 /\ UNCHANGED <<engines, running>>
                 /\ Marks({engine.id}, {})
              \/ /\ strict => CanNest
                 /\ trace' = trace \o <<call, PolicyEntry("on_shutdown", engine)>>
                 /\ handle_engine_error(Advanced, engines, engine,
                                        Exception(Len(trace) + 1))
                 /\ Marks({engine.id}, Evictions(engines, engine))

\* stop() returns: to the embedding program, to the step hook that called it
\* (which returns in turn), or to _handle_engine_error, which raises error.
StopReturn ==
    /\ stack # <<>> /\ exc = NoError
    /\ Top.op = "stop" /\ Top.i > Len(Top.list)
    /\ LET below == Front(stack)
       IN  IF below = <<>>
           THEN stack' = <<>> /\ exc' = NoError
           ELSE IF Last(below).op = "_handle_engine_error"
           THEN stack' = Front(below) /\ exc' = Last(below).error
           ELSE stack' = Front(below) /\ exc' = NoError
    /\ UNCHANGED <<strict, engines, running, world_state, clock, next_id, caller,
                   pre, trace>>
    /\ Marks({}, {})

\* An exception leaves the frame on top of the stack.  Only the try of _tick
\* around a step hook can be below a raising call; every other frame lets it
\* pass, and with no frame left it reaches the embedding program.
Propagate ==
    /\ exc # NoError
    /\ UNCHANGED <<strict, world_state, next_id, pre>>
    /\ IF stack = <<>>
       THEN /\ caller' = [caller EXCEPT !.raised = exc]
            /\ exc' = NoError
            /\ clock' = 0
            /\ UNCHANGED <<engines, running, stack, trace, shut_down, evicted>>
       ELSE IF Top.op = "step"
       THEN /\ exc' = NoError
            /\ trace' = Append(trace, PolicyEntry("step", Top.engine))
            /\ handle_engine_error(Front(stack), engines, Top.engine, exc)
            /\ Marks({}, Evictions(engines, Top.engine))
            /\ UNCHANGED <<caller, clock>>
       ELSE /\ stack' = Front(stack)
            /\ UNCHANGED <<engines, running, exc, caller, trace, clock>>
            /\ Marks({}, {})

\* (a loop that does not look at self.running: while True)
RunLoopTick_ignoring_running ==
    /\ stack # <<>> /\ exc = NoError
    /\ Top.op = "_run_loop"
    /\ clock >= tick_duration
    /\ world_state.tick < MaxTick
    /\ clock' = 0
    /\ world_state' = tick_begin(world_state)
    /\ stack' = Append(stack, tick_frame(engines))
    /\ trace' = <<>>
    /\ UNCHANGED <<strict, engines, running, exc, next_id, caller, pre,
                   shut_down, evicted>>

\* (a loop that keeps the backlog: last_time += tick_duration)
RunLoopTick_keeping_backlog ==
    /\ stack # <<>> /\ exc = NoError
    /\ Top.op = "_run_loop" /\ running
    /\ clock >= tick_duration
    /\ world_state.tick < MaxTick
    /\ clock' = clock - tick_duration
    /\ world_state' = tick_begin(world_state)
    /\ stack' = Append(stack, tick_frame(engines))
    /\ trace' = <<>>
    /\ UNCHANGED <<strict, engines, running, exc, next_id, caller, pre,
                   shut_down, evicted>>

\* _run_loop(): one evaluation of `while self.running` and of the loop body
RunLoopTick ==
    /\ stack # <<>> /\ exc = NoError
    /\ Top.op = "_run_loop" /\ running
    /\ clock >= tick_duration
    /\ world_state.tick < MaxTick
    /\ clock' = 0
    /\ world_state' = tick_begin(world_state)
    /\ stack' = Append(stack, tick_frame(engines))
    /\ trace' = <<>>
    /\ UNCHANGED <<strict, engines, running, exc, next_id, caller, pre,
                   shut_down, evicted>>

RunLoopSleep ==
    /\ stack # <<>> /\ exc = NoError
    /\ Top.op = "_run_loop" /\ running
    /\ clock < tick_duration
    /\ clock' = clock + (tick_duration - clock)
    /\ UNCHANGED <<strict, engines, running, world_state, stack, exc, next_id,
                   caller, pre, trace, shut_down, evicted>>

RunLoopExit ==
    /\ stack # <<>> /\ exc = NoError
    /\ Top.op = "_run_loop" /\ ~running
    /\ stack' = <<>>
    /\ clock' = 0
    /\ UNCHANGED <<strict, engines, running, world_state, exc, next_id,
                   caller, pre, trace, shut_down, evicted>>

Next ==
    \/ Register
    \/ Unregister
    \/ Stop
    \/ StepOnce
    \/ Start
    \/ TickStep
    \/ TickReturn
    \/ StopStep
    \/ StopReturn
    \/ Propagate
    \/ RunLoopTick
    \/ RunLoopSleep
    \/ RunLoopExit

Spec == Init /\ [][Next]_vars

\* The steps of a call in progress.  The interpreter goes on executing the
\* call it is in, every hook invocation returns or raises, and time.sleep
\* returns: a call in progress is not suspended forever.  When the embedding
\* program makes its next call is not constrained.
Inner ==
    \/ TickStep
    \/ TickReturn
    \/ StopStep
    \/ StopReturn
    \/ Propagate
    \/ RunLoopTick
    \/ RunLoopSleep
    \/ RunLoopExit

FairSpec == Spec /\ WF_vars(Inner)

\* ---- properties -----------------------------------------------------------
\* the entries of `trace` that record a call of _handle_engine_error
Failures == {j \in 1..Len(trace) : trace[j].hook = "_handle_engine_error"}
\* the objects whose hook `hook` was invoked, as recorded in `trace`
Invoked(hook) == {trace[j].id : j \in {k \in 1..Len(trace) : trace[k].hook = hook}}
\* a tick has run to its end: step_once() has returned, or _tick() is about to
\* return
StepOnceDone == Idle /\ caller.op = "step_once"

\* C1: the registry is in ascending order of (priority, registration
\* order): of two entries, the earlier has the lower priority or, with equal
\* priorities, was registered first.
C1_RegistryOrdered ==
    \A i, j \in 1..Len(engines) :
        i < j =>
            \/ engines[i].priority < engines[j].priority
            \/ /\ engines[i].priority = engines[j].priority
               /\ engines[i].id < engines[j].id

C1_Witness ==
    /\ Idle /\ caller.op = "register_engine"
    /\ Len(engines) = 2
    /\ engines[1].priority = engines[2].priority
    /\ Len(pre.engines) = 1 /\ pre.engines[1].priority = engines[1].priority

\* C2: when step_once() has returned or raised, tick is one more and time one
\* tick duration more than when it was called, in both fault modes.
C2_StepOnceAdvancesOneTick ==
    StepOnceDone =>
        /\ world_state.tick = pre.world_state.tick + 1
        /\ world_state.time = pre.world_state.time + tick_duration

C2_Witness ==
    /\ StepOnceDone
    /\ Len(pre.engines) = 2
    /\ Failures # {}
    /\ caller.raised # NoError

\* C3: events is empty when the first step of a tick is about to be invoked,
\* and every event in it was appended at the current time, that is, in the
\* current tick.
C3_EventsOfCurrentTick ==
    /\ (stack # <<>> /\ Top.op = "_tick" /\ Top.i = 1) => world_state.events = <<>>
    /\ \A k \in 1..Len(world_state.events) :
          world_state.events[k].time = world_state.time

C3_Witness ==
    /\ world_state.tick = 2
    /\ world_state.events # <<>>
    /\ pre.world_state.events # <<>>
    /\ caller.op = "step_once"

\* the entries of `trace` that record a failure of a step hook
StepFailures == {j \in Failures : trace[j].of = "step"}
\* _tick() has run its loop to the end and is about to return
TickEnded ==
    exc = NoError /\ stack # <<>> /\ Top.op = "_tick" /\ Top.i > Len(Top.list)
\* the latest tick is over: step_once() has returned, _tick() is about to
\* return, or _run_loop() is between two ticks
AfterTick == StepOnceDone \/ TickEnded \/ (stack # <<>> /\ Top.op = "_run_loop")

\* C4: in isolated mode step_once() never raises; after a tick in which a
\* step failed the failing object is not in the registry; every object
\* registered when the tick began had its step invoked in it; and a tick
\* steps no object that the fault policy removed before the tick began.
C4_IsolatedStepFailure ==
    ~strict =>
        /\ caller.op = "step_once" => exc = NoError /\ caller.raised = NoError
        /\ AfterTick =>
              \A j \in StepFailures : trace[j].id \notin EngineIds(engines)
        /\ TickEnded =>
              \A k \in 1..Len(Top.list) : Top.list[k].id \in Invoked("step")
        /\ StepOnceDone =>
              \A k \in 1..Len(pre.engines) : pre.engines[k].id \in Invoked("step")
        /\ \A f \in 1..Len(stack) :
              stack[f].op = "_tick" =>
                  \A k \in 1..Len(stack[f].list) :
                      stack[f].list[k].id \in evicted =>
                          \E j \in Failures : trace[j].name = stack[f].list[k].name

C4_Witness ==
    /\ ~strict /\ StepOnceDone
    /\ Len(pre.engines) = 2 /\ Len(engines) = 1
    /\ \E j \in StepFailures : trace[j].id = pre.engines[1].id
    /\ pre.engines[2].id \in Invoked("step")
    /\ pre.world_state.tick = 1

\* C5: in strict mode, when a failure of a step hook (the only failure of the
\* tick) is raised out of step_once() or start(), running is false and, since
\* the failure, on_shutdown has been invoked exactly once on every other
\* object in the registry.
C5_StrictStepFailureShutsDown ==
    ( /\ strict
      /\ caller.op \in {"step_once", "start"}
      /\ exc # NoError \/ (Idle /\ caller.raised # NoError) ) =>
        /\ Failures # {}
        /\ (\A j \in Failures : trace[j].of = "step") =>
              /\ Cardinality(Failures) = 1
              /\ running = FALSE
              /\ \A k \in 1..Len(engines) :
                    \A j \in Failures :
                        engines[k].id # trace[j].id =>
                            Cardinality({n \in (j + 1)..Len(trace) :
                                            /\ trace[n].hook = "on_shutdown"
                                            /\ trace[n].id = engines[k].id}) = 1

C5_Witness ==
    /\ strict /\ Idle /\ caller.op = "start" /\ caller.raised # NoError
    /\ Len(engines) = 2
    /\ Cardinality(Failures) = 1 /\ StepFailures # {}
    /\ Invoked("on_shutdown") = EngineIds(engines)

\* C6: in strict mode, when on_register raised during register_engine, the
\* call has raised and the object is not in the registry.
C6_StrictRegisterFailureEvicts ==
    ( /\ strict /\ Idle /\ caller.op = "register_engine"
      /\ \E j \in Failures : trace[j].of = "on_register" ) =>
        /\ caller.raised # NoError
        /\ caller.arg.id \notin EngineIds(engines)

\* C7: unregister_engine(name) never raises, leaves no entry of that name,
\* leaves the registry as it was when the name was not registered, and a
\* second call changes nothing.
C7_UnregisterIdempotent ==
    caller.op = "unregister_engine" =>
        /\ exc = NoError /\ caller.raised = NoError
        /\ \A k \in 1..Len(engines) : engines[k].name # caller.arg
        /\ (\A k \in 1..Len(pre.engines) : pre.engines[k].name # caller.arg)
              => engines = pre.engines
        /\ without_name(engines, caller.arg) = engines

C7_Witness ==
    /\ Idle /\ caller.op = "unregister_engine"
    /\ pre.engines # <<>>
    /\ \A k \in 1..Len(pre.engines) : pre.engines[k].name # caller.arg
    /\ next_id - 1 > Len(pre.engines)

\* C8: register_engine of a value that is no BaseEngine raises TypeError and
\* leaves the registry, running and the world state as they were, with no
\* hook invoked and the fault policy not entered.
C8_RejectsNonEngine ==
    (caller.op = "register_engine" /\ caller.arg.kind # "BaseEngine") =>
        /\ exc = TypeError \/ (Idle /\ caller.raised = TypeError)
        /\ engines = pre.engines
        /\ running = pre.running
        /\ world_state = pre.world_state
        /\ trace = <<>>
        /\ stack = <<>>

C8_Witness ==
    /\ Idle /\ caller.op = "register_engine" /\ caller.arg.kind = "object"
    /\ caller.raised = TypeError
    /\ pre.engines # <<>> /\ pre.world_state.tick > 0

\* C9: no two entries of the registry have the same name.
C9_NamesDistinct ==
    \A i, j \in 1..Len(list_engines) :
        i # j => list_engines[i] # list_engines[j]

\* C10: on_shutdown is invoked at most once on each object, and stop() is
\* idempotent: a call of stop() in which no hook fails invokes on_shutdown
\* on no object on which it has been invoked before.
C10_ShutdownAtMostOnce ==
    [][( /\ caller'.op = "stop"
         /\ \A m \in 1..Len(trace') : trace'[m].hook # "_handle_engine_error" ) =>
          \A n \in (Len(trace) + 1)..Len(trace') :
              trace'[n].hook = "on_shutdown" => trace'[n].id \notin shut_down]_vars

\* the frames of calls of stop() that have not returned
StopFrames == {f \in 1..Len(stack) : stack[f].op = "stop"}

\* C11: in strict mode a failure of on_shutdown during stop() starts no
\* nested stop(): no call of stop() is made while another has not returned,
\* so the walk is not restarted.
C11_NoNestedStop ==
    strict => Cardinality(StopFrames) <= 1

\* the first entry of `trace` that records a call of _handle_engine_error;
\* the entry before it is the hook invocation that raised
FirstFailure == CHOOSE j \in Failures : \A k \in Failures : j <= k

\* C12: in strict mode the exception that reaches the caller of step_once()
\* or start() is the one raised by the first hook that failed.
C12_OriginalFailureRaised ==
    ( /\ strict /\ Idle
      /\ caller.op \in {"step_once", "start"}
      /\ caller.raised # NoError ) =>
        /\ Failures # {}
        /\ caller.raised = Exception(FirstFailure - 1)

\* the ids of a list of objects, in its order
IdsOf(list) == [k \in 1..Len(list) |-> list[k].id]
\* the objects whose step was invoked since the tick began, in that order
Stepped == IdsOf(SelectSeq(trace, LAMBDA c : c.hook = "step"))
\* the frames of _tick() (there is at most one)
TickFrames == {f \in 1..Len(stack) : stack[f].op = "_tick"}

\* C13: in a tick in which no hook has failed, the objects stepped so far
\* are, in order and once each, the first objects of the registry as it was
\* when the tick began, which is in ascending (priority, registration)
\* order; when the tick is over they are all of it.
C13_StepOncePerEngineInOrder ==
    Failures = {} =>
        /\ \A f \in TickFrames :
              /\ Stepped = IdsOf(SubSeq(stack[f].list, 1, stack[f].i - 1))
              /\ \A i, j \in 1..Len(stack[f].list) :
                    i < j =>
                        \/ stack[f].list[i].priority < stack[f].list[j].priority
                        \/ /\ stack[f].list[i].priority = stack[f].list[j].priority
                           /\ stack[f].list[i].id < stack[f].list[j].id
        /\ StepOnceDone => Stepped = IdsOf(pre.engines)

C13_Witness ==
    /\ StepOnceDone /\ Failures = {}
    /\ Len(pre.engines) = 2
    /\ pre.engines[1].id > pre.engines[2].id
    /\ Len(Stepped) = 2

\* the entries a step of the model adds to `trace` (a tick, and a call that
\* invokes hooks, begin with an empty trace)
Added ==
    IF next_id' # next_id THEN trace'
    ELSE SubSeq(trace', Len(trace) + 1, Len(trace'))

\* C14: a change of the registry made during a tick takes effect in that
\* tick: step is invoked only on an object that is in the registry at that
\* moment, so a peer unregistered or evicted earlier in the tick is skipped.
C14_UnregisteredPeerSkipped ==
    [][\A n \in 1..Len(Added) :
          Added[n].hook = "step" => Added[n].id \in EngineIds(engines)]_vars

C16_NoShutdownAfterEviction ==
    [][\A n \in 1..Len(Added) :
          Added[n].hook = "on_shutdown" => Added[n].id \notin evicted]_vars

\* _run_loop() is at the top of its loop
AtLoopTop == stack # <<>> /\ Top.op = "_run_loop"

\* C17: while start() runs, a step of the loop performs at most one tick; a
\* tick begins only when at least one tick duration has elapsed since the
\* reference time, which is then set to the current time, so that the next
\* tick is again at least one tick duration later and no backlog is kept;
\* the loop sleeps only when less than a tick duration has elapsed, and
\* then for the remaining time.
C17_RunLoopPacing ==
    [][(InLoop /\ InLoop') =>
          /\ world_state'.tick \in {world_state.tick, world_state.tick + 1}
          /\ world_state'.tick # world_state.tick =>
                /\ AtLoopTop /\ running
                /\ clock >= tick_duration
                /\ clock' = 0
          /\ (AtLoopTop /\ AtLoopTop' /\ clock' # clock) =>
                /\ clock < tick_duration
                /\ clock' = tick_duration]_vars

\* the second tick of one start() has begun, after a first tick that took
\* more than two tick durations or less than one
C17_Witness ==
    /\ InLoop /\ caller.op = "start"
    /\ pre.world_state.tick = 0 /\ world_state.tick = 2
    /\ Top.op = "_tick" /\ Top.i = 1 /\ clock = 0

\* stop() has been called in isolated mode while start() runs
StoppedInLoop == ~strict /\ InLoop /\ ~running

\* C18: when stop() is called from a hook in isolated mode while start()
\* runs, no further tick begins and running stays false; the tick in
\* progress steps every object of its walk; start() leaves the loop only
\* from the top of the loop, without raising, and it eventually returns;
\* and the tick counter changes only in step_once() or in a running loop.
C18_StopEndsContinuousMode ==
    /\ [][StoppedInLoop =>
             /\ world_state'.tick = world_state.tick
             /\ ~running']_vars
    /\ []((StoppedInLoop /\ TickEnded) =>
             \A k \in 1..Len(Top.list) : Top.list[k].id \in Invoked("step"))
    /\ [][(~strict /\ InLoop /\ ~InLoop') =>
             /\ AtLoopTop /\ ~running
             /\ stack' = <<>> /\ exc' = NoError]_vars
    /\ [][world_state'.tick # world_state.tick =>
             \/ Idle /\ caller'.op = "step_once"
             \/ InLoop /\ running]_vars
    /\ StoppedInLoop ~> (Idle /\ caller.op = "start" /\ caller.raised = NoError)

\* start() has returned after a tick in which a step hook called stop() and
\* a later object was still stepped
C18_Witness ==
    /\ ~strict /\ Idle /\ caller.op = "start" /\ caller.raised = NoError
    /\ ~running
    /\ world_state.tick = pre.world_state.tick + 1
    /\ Len(trace) >= 3
    /\ trace[Len(trace)].hook = "step"
    /\ trace[Len(trace) - 1].hook = "on_shutdown"
    /\ trace[Len(trace)].id # trace[1].id

StrictStepFailed ==
    strict /\ caller.op \in {"step_once", "start"} /\ StepFailures # {}

\* C20: in strict mode, once a step hook has failed in a tick, no step is
\* invoked any more in that tick, the tick counter and the time count the
\* tick, and from the failure on the registry stays as it was: the failing
\* object and every other entry are still in it when the failure is raised.
C20_StrictStepFailureAbortsTick ==
    /\ [](StrictStepFailed =>
             /\ \A j \in StepFailures :
                   \A n \in (j + 1)..Len(trace) : trace[n].hook # "step"
             /\ world_state.tick > pre.world_state.tick
             /\ caller.op = "step_once" =>
                   world_state.tick = pre.world_state.tick + 1
             /\ world_state.time = pre.world_state.time
                   + (world_state.tick - pre.world_state.tick) * tick_duration
             /\ (\A f \in 1..Len(stack) : stack[f].op # "_tick")
                   => exc # NoError \/ (Idle /\ caller.raised # NoError))
    /\ [][StrictStepFailed' => engines' = engines]_vars

\* step_once() has raised: the first of two objects failed, the second was
\* not stepped, both are registered
C20_Witness ==
    /\ strict /\ Idle /\ caller.op = "step_once" /\ caller.raised # NoError
    /\ Len(pre.engines) = 2 /\ engines = pre.engines
    /\ world_state.tick = 2
    /\ Stepped = <<pre.engines[1].id>>
    /\ StepFailures # {}

====
